---- MODULE Spec2Model ----
(***************************************************************************)
(* Model of image.py: the batch driver under __main__ and                  *)
(* extract_frames_from_dicom.  Strings are sequences of code points, so    *)
(* that lower(), endswith(), sorted(), basename(), splitext() and the      *)
(* f-string formatting are computed the way Python computes them.          *)
(***************************************************************************)
EXTENDS Integers, Sequences, FiniteSets, TLC

\* ------------------------------------------------------------------ bounds
\* Largest leading axis (number of frames) of a decoded pixel buffer.
MaxFrames == 2
\* Largest trailing axis of a decoded pixel buffer (channels, or width).
MaxChan == 5
\* Samples of a frame that vary freely; the samples after them hold Fill.
MaxVary == 2

\* ----------------------------------------------------------------- strings
None == "None"

\* "path of file"
dicom_folder_path == <<112, 97, 116, 104, 32, 111, 102, 32, 102, 105, 108, 101>>

\* The directory entries os.listdir may return:
\* "a.dcm.txt", "\udcff\U0001F600.DCM", "\udcff\U0001F600.dcm"
\* (\udcff is how listdir decodes the byte 0xFF, which is not valid UTF-8)
Names ==
    { <<97, 46, 100, 99, 109, 46, 116, 120, 116>>,
      <<56575, 128512, 46, 68, 67, 77>>,
      <<56575, 128512, 46, 100, 99, 109>> }

\* sys.stdout.encoding and sys.stdout.errors, as the locale and PYTHONIOENCODING
\* set them when the interpreter starts
StdoutEncodings == {"utf-8", "ascii"}
StdoutErrors == {"strict", "surrogateescape"}

\* print(s) succeeds: every code point can be encoded for sys.stdout. ASCII
\* takes the code points below 128, UTF-8 all but the surrogates, and the
\* handler 'surrogateescape' turns U+DC80..U+DCFF back into the bytes they
\* stand for; anything else raises UnicodeEncodeError
CanPrint(s, encoding, errors) ==
    \A k \in 1..Len(s) :
        \/ encoding = "ascii" /\ s[k] < 128
        \/ encoding = "utf-8" /\ (s[k] < 55296 \/ s[k] > 57343)
        \/ errors = "surrogateescape" /\ s[k] >= 56448 /\ s[k] <= 56575

\* str.lower(): the ASCII capitals change, the other code points of Names have
\* no lower case
Lower(s) == [k \in 1..Len(s) |-> IF s[k] >= 65 /\ s[k] <= 90 THEN s[k] + 32 ELSE s[k]]

\* str.endswith(suf)
EndsWith(s, suf) ==
    /\ Len(s) >= Len(suf)
    /\ SubSeq(s, Len(s) - Len(suf) + 1, Len(s)) = suf

\* filename.lower().endswith(".dcm")
IsDcm(filename) == EndsWith(Lower(filename), <<46, 100, 99, 109>>)

\* a < b for Python strings: code point by code point, a proper prefix first
StrLess(a, b) ==
    \E k \in 1..(Len(b)) :
        /\ \A j \in 1..(k - 1) : j <= Len(a) /\ a[j] = b[j]
        /\ \/ k = Len(a) + 1
           \/ k <= Len(a) /\ a[k] < b[k]

\* sorted(S) of a set of distinct strings
RECURSIVE Sorted(_)
Sorted(S) ==
    IF S = {} THEN <<>>
    ELSE LET m == CHOOSE x \in S : \A y \in S \ {x} : StrLess(x, y)
         IN  <<m>> \o Sorted(S \ {m})

\* os.path.join(a, b) for a relative b
Join(a, b) == a \o <<47>> \o b

\* index of the last occurrence of c in p, 0 if none (str.rfind, 1-based)
RFind(p, c) ==
    IF \E k \in 1..Len(p) : p[k] = c
    THEN CHOOSE k \in 1..Len(p) : p[k] = c /\ \A j \in (k + 1)..Len(p) : p[j] # c
    ELSE 0

\* os.path.basename(p)
Basename(p) == SubSeq(p, RFind(p, 47) + 1, Len(p))

\* os.path.splitext(p)[0]: the last dot splits, unless only dots precede it
\* in the last path component
SplitextRoot(p) ==
    LET sepIndex == RFind(p, 47)
        dotIndex == RFind(p, 46)
    IN  IF /\ dotIndex > sepIndex
           /\ \E k \in (sepIndex + 1)..(dotIndex - 1) : p[k] # 46
        THEN SubSeq(p, 1, dotIndex - 1)
        ELSE p

\* f"{base_filename_without_ext}_extracted"
FolderNameMutant(path) == Basename(path) \o <<95, 101, 120, 116, 114, 97, 99, 116, 101, 100>>
FolderName(path) ==
    SplitextRoot(Basename(path)) \o <<95, 101, 120, 116, 114, 97, 99, 116, 101, 100>>

\* decimal digits of n >= 0
RECURSIVE Digits(_)
Digits(n) == IF n < 10 THEN <<48 + n>> ELSE Digits(n \div 10) \o <<48 + (n % 10)>>

\* f"{i:04d}"
RECURSIVE ZeroPad(_)
ZeroPad(d) == IF Len(d) >= 4 THEN d ELSE ZeroPad(<<48>> \o d)

\* f"frame_{i:04d}.png"
FrameNameMutant(i) == <<102, 114, 97, 109, 101, 95>> \o Digits(i) \o <<46, 112, 110, 103>>
FrameName(i) == <<102, 114, 97, 109, 101, 95>> \o ZeroPad(Digits(i)) \o <<46, 112, 110, 103>>

\* "single_frame.png"
SingleName ==
    <<115, 105, 110, 103, 108, 101, 95, 102, 114, 97, 109, 101, 46, 112, 110, 103>>

\* ------------------------------------------------------------ pixel buffers
Dtypes == {"uint8", "int16"}

\* sample values a decoded buffer of each dtype may hold
Samples(dtype) ==
    CASE dtype = "uint8" -> {9, 100, 200}
      [] dtype = "int16" -> {-2, 0, 5}

\* shapes the decoder may hand back, ranks 1 to 5
Shapes ==
    {<<n>> : n \in 1..MaxFrames}
    \cup {<<n, c>> : n \in 1..MaxFrames, c \in 1..MaxChan}
    \cup {<<n, 1, c>> : n \in 1..MaxFrames, c \in 1..MaxChan}
    \cup {<<n, 1, 1, c>> : n \in 1..MaxFrames, c \in 1..MaxChan}
    \cup {<<n, 1, 1, 1, 1>> : n \in 1..MaxFrames}

RECURSIVE Product(_)
Product(s) == IF s = <<>> THEN 1 ELSE Head(s) * Product(Tail(s))

\* the value of the samples of a frame that do not vary
Fill(dtype) == IF dtype = "uint8" THEN 100 ELSE 0

\* the sample values of one slice of `size` samples, in C order
FrameData(dtype, size) ==
    LET v == IF size < MaxVary THEN size ELSE MaxVary
    IN  { [k \in 1..size |-> IF k <= v THEN f[k] ELSE Fill(dtype)] :
              f \in [1..v -> Samples(dtype)] }

SeqMin(s) == CHOOSE x \in {s[k] : k \in 1..Len(s)} : \A k \in 1..Len(s) : x <= s[k]
SeqMax(s) == CHOOSE x \in {s[k] : k \in 1..Len(s)} : \A k \in 1..Len(s) : x >= s[k]

\* float64 -> uint8 of a non-negative value: the fraction is dropped
AsUint8(q) == q % 256

\* the rescale block: frame.astype(float64), min, max, affine map, astype(uint8).
\* Samples are integers of at most 32 bits, so 255 * (x - min) is exact in
\* float64 and the truncated quotient is the integer quotient.
NormalizeMutant(dtype, data) ==
    IF dtype = "uint8" THEN data
    ELSE LET min_val == SeqMin(data)
             max_val == SeqMax(data)
         IN  IF max_val # min_val
             THEN [k \in 1..Len(data) |->
                      AsUint8((256 * (data[k] - min_val)) \div (max_val - min_val))]
             ELSE [k \in 1..Len(data) |-> 0]
Normalize(dtype, data) ==
    IF dtype = "uint8" THEN data
    ELSE LET min_val == SeqMin(data)
             max_val == SeqMax(data)
         IN  IF max_val # min_val
             THEN [k \in 1..Len(data) |->
                      AsUint8((255 * (data[k] - min_val)) \div (max_val - min_val))]
             ELSE [k \in 1..Len(data) |-> 0]

\* Image.fromarray(frame, 'L') for a 2-D uint8 frame
FromArrayL(shape) == "L"

\* the exceptions Image.fromarray raises
EncodeErrors == {"TypeError", "ValueError"}

\* Image.fromarray(frame) for a uint8 frame: more than 3 axes are refused, the
\* mode is looked up from the trailing axis, and the lookup may fail
FromArrayMutant(shape) ==
    IF Len(shape) > 3 THEN "ValueError"
    ELSE IF Len(shape) <= 2 THEN "L"
    ELSE IF shape[3] = 3 THEN "RGB"
    ELSE IF shape[3] = 4 THEN "RGBA"
    ELSE "TypeError"
FromArray(shape) ==
    IF Len(shape) > 3 THEN "ValueError"
    ELSE IF Len(shape) <= 2 THEN "L"
    ELSE IF shape[3] = 2 THEN "LA"
    ELSE IF shape[3] = 3 THEN "RGB"
    ELSE IF shape[3] = 4 THEN "RGBA"
    ELSE "TypeError"

\* pixel_array[i]: the slice loses the leading axis
FrameShapeMutant(shape) == shape
FrameShape(shape) == Tail(shape)

\* the per-frame shape test of the rank-3 loop:
\* "L" (2-D), "auto" (3-D, trailing axis 3 or 4) or "skip"
FrameKindMutant(fshape) ==
    IF Len(fshape) = 3 THEN "L"
    ELSE IF Len(fshape) = 4 /\ fshape[Len(fshape)] \in {3, 4} THEN "auto"
    ELSE "skip"
FrameKind(fshape) ==
    IF Len(fshape) = 2 THEN "L"
    ELSE IF Len(fshape) = 3 /\ fshape[Len(fshape)] \in {3, 4} THEN "auto"
    ELSE "skip"

\* ------------------------------------------------------------------- state
VARIABLES
    pc,           \* the statement the program is at
    isdir,        \* os.path.isdir(dicom_folder_path)
    listing,      \* the entries of dicom_folder_path
    filenames,    \* sorted(os.listdir(dicom_folder_path)), or [] if listing failed
    idx,          \* position of the for loop in filenames (1-based)
    stdout_encoding,              \* sys.stdout.encoding
    stdout_errors,                \* sys.stdout.errors
    dicom_filepath,               \* argument of the running call, None outside a call
    source,                       \* what is on disk at dicom_filepath
    ds,                           \* the decoded dataset: which tags it holds
    pixel_array,                  \* ds.pixel_array: shape and dtype
    specific_output_folder_name,  \* the "<stem>_extracted" folder of the call
    i,            \* frame index of the running loop
    frame,        \* the frame last saved by the running call: <<>> or <<record>>
    msg,          \* the last diagnostic print of the running call
    exc,          \* the exception the running call raised, None if none
    dirs,         \* folders that exist under the output root
    files,        \* image files under the output root, each with the source it came from
    dirs0,        \* dirs when the running call started
    files0,       \* files when the running call started
    wrote,        \* names of the image files the running call has saved
    invoked,      \* history: the file names extraction was called with, in order
    writes,       \* history: every save of the run, as <<file name, folder, image name>>
    log           \* history: for each returned call, whether an except clause ended it

vars == <<pc, isdir, listing, filenames, idx, stdout_encoding, stdout_errors,
          dicom_filepath, source, ds, pixel_array, specific_output_folder_name, i, frame,
          msg, dirs, files, dirs0, files0, wrote, invoked, writes, log, exc>>

stdoutVars == <<stdout_encoding, stdout_errors>>
batchVars == <<isdir, listing, filenames, idx, invoked, log, stdoutVars>>
fsVars == <<dirs, files, writes, wrote>>
callVars == <<dicom_filepath, source, ds, pixel_array, specific_output_folder_name, i,
              frame, dirs0, files0>>

\* what may be on disk at a listed name: nothing (a dangling link), a file that
\* is no DICOM container, one that cannot be read, or a dataset with or without
\* the pixel-data tag and the Referenced Image Sequence tag
Sources ==
    {[kind |-> k, pixel |-> FALSE, refseq |-> FALSE] :
         k \in {"missing", "invalid", "unreadable"}}
    \cup {[kind |-> "dicom", pixel |-> p, refseq |-> r] : p \in BOOLEAN, r \in BOOLEAN}
NoSource == [kind |-> None, pixel |-> FALSE, refseq |-> FALSE]

\* ds and pixel_array before they are bound
NoDataset == [decoded |-> FALSE, pixel |-> FALSE, refseq |-> FALSE]
NoArray == [shape |-> <<>>, dtype |-> None]

\* what the scanned folder may hold: any of the names
Listings == SUBSET Names

Init ==
    /\ pc = "main"
    /\ isdir \in BOOLEAN
    /\ listing \in (IF isdir THEN Listings ELSE {{}})
    /\ filenames = <<>>
    /\ idx = 1
    /\ stdout_encoding \in StdoutEncodings
    /\ stdout_errors \in StdoutErrors
    /\ dicom_filepath = None
    /\ source = NoSource
    /\ ds = NoDataset
    /\ pixel_array = NoArray
    /\ specific_output_folder_name = None
    /\ i = 0
    /\ frame = <<>>
    /\ msg = None
    /\ exc = None
    /\ dirs = {}
    /\ files = {}
    /\ dirs0 = {}
    /\ files0 = {}
    /\ wrote = {}
    /\ invoked = <<>>
    /\ writes = {}
    /\ log = <<>>

\* ------------------------------------------------------------ batch driver
\* os.path.isdir(dicom_folder_path) is false: report, no batch
MainNoFolder ==
    /\ pc = "main"
    /\ ~isdir
    /\ pc' = "nofolder"
    /\ UNCHANGED <<batchVars, fsVars, callVars, msg, exc>>

\* filenames = sorted(os.listdir(dicom_folder_path))
MainList ==
    /\ pc = "main"
    /\ isdir
    /\ filenames' = Sorted(listing)
    /\ pc' = "for"
    /\ UNCHANGED <<isdir, listing, idx, invoked, log, stdoutVars, fsVars, callVars,
                   msg, exc>>

\* os.listdir raises: filenames = []
MainListFails ==
    /\ pc = "main"
    /\ isdir
    /\ filenames' = <<>>
    /\ pc' = "for"
    /\ UNCHANGED <<isdir, listing, idx, invoked, log, stdoutVars, fsVars, callVars,
                   msg, exc>>

\* the loop takes a name ending in .dcm and calls extract_frames_from_dicom,
\* which prints "Processing file: <name>" and enters its try block
ForDcm ==
    /\ pc = "for"
    /\ idx <= Len(filenames)
    /\ IsDcm(filenames[idx])
    /\ CanPrint(filenames[idx], stdout_encoding, stdout_errors)
    /\ dicom_filepath' = Join(dicom_folder_path, filenames[idx])
    /\ source' \in Sources
    /\ invoked' = Append(invoked, filenames[idx])
    /\ dirs0' = dirs
    /\ files0' = files
    /\ wrote' = {}
    /\ pc' = "read"
    /\ UNCHANGED <<isdir, listing, filenames, idx, log, stdoutVars, ds, pixel_array,
                   specific_output_folder_name, i, frame, msg, exc, dirs, files, writes>>

\* the same call with a name sys.stdout cannot encode: the print before the try
\* block raises UnicodeEncodeError, which no except clause of the function and
\* nothing in the loop catches; the script ends with a traceback
ForDcmRaises ==
    /\ pc = "for"
    /\ idx <= Len(filenames)
    /\ IsDcm(filenames[idx])
    /\ ~CanPrint(filenames[idx], stdout_encoding, stdout_errors)
    /\ dicom_filepath' = Join(dicom_folder_path, filenames[idx])
    /\ source' \in Sources
    /\ invoked' = Append(invoked, filenames[idx])
    /\ dirs0' = dirs
    /\ files0' = files
    /\ wrote' = {}
    /\ exc' = "UnicodeEncodeError"
    /\ pc' = "crashed"
    /\ UNCHANGED <<isdir, listing, filenames, idx, log, stdoutVars, ds, pixel_array,
                   specific_output_folder_name, i, frame, msg, dirs, files, writes>>

\* the loop passes over any other name
ForSkip ==
    /\ pc = "for"
    /\ idx <= Len(filenames)
    /\ ~IsDcm(filenames[idx])
    /\ idx' = idx + 1
    /\ UNCHANGED <<pc, isdir, listing, filenames, invoked, log, stdoutVars, fsVars,
                   callVars, msg, exc>>

\* the loop is exhausted: "Finished processing all .dcm files"
ForEnd ==
    /\ pc = "for"
    /\ idx > Len(filenames)
    /\ pc' = "finished"
    /\ UNCHANGED <<batchVars, fsVars, callVars, msg, exc>>

\* extract_frames_from_dicom returns to the loop
Return ==
    /\ pc = "ret"
    /\ pc' = "for"
    /\ idx' = idx + 1
    /\ dicom_filepath' = None
    /\ source' = NoSource
    /\ ds' = NoDataset
    /\ pixel_array' = NoArray
    /\ specific_output_folder_name' = None
    /\ i' = 0
    /\ frame' = <<>>
    /\ msg' = None
    /\ exc' = None
    /\ log' = Append(log, exc # None)
    /\ dirs0' = {}
    /\ files0' = {}
    /\ wrote' = {}
    /\ UNCHANGED <<isdir, listing, filenames, invoked, stdoutVars, dirs, files, writes>>

\* ------------------------------------------------ extract_frames_from_dicom
\* the source file name of the running call, as the loop passed it
Source == Basename(dicom_filepath)

\* image.save(output_filename): the file is created or silently replaced
Put(fs, folder, name, src) ==
    {f \in fs : ~(f[1] = folder /\ f[2] = name)} \cup {<<folder, name, src>>}

\* a frame is saved as `name`
Saved(name, rec) ==
    /\ files' = Put(files, specific_output_folder_name, name, Source)
    /\ writes' = writes \cup {<<Source, specific_output_folder_name, name>>}
    /\ wrote' = wrote \cup {name}
    /\ frame' = <<rec>>

\* the except clause an exception raised in the try block ends in, by its type
Except(e) ==
    IF e = "InvalidDicomError" THEN "err_invalid"
    ELSE IF e = "FileNotFoundError" THEN "err_notfound"
    ELSE "err_unexpected"

\* an exception is raised in the try block: the clause reports, the call ends
Raise(e) ==
    /\ msg' = Except(e)
    /\ exc' = e
    /\ pc' = "ret"

\* what os.makedirs and image.save may raise: no such file or directory (a
\* dangling link on the way), or another OSError (no permission, no space)
FsErrors == {"FileNotFoundError", "OSError"}

\* pydicom.dcmread succeeds: the dataset holds or lacks the two tags
ReadOk ==
    /\ pc = "read"
    /\ source.kind = "dicom"
    /\ ds' = [decoded |-> TRUE, pixel |-> source.pixel, refseq |-> source.refseq]
    /\ pc' = "check"
    /\ UNCHANGED <<batchVars, fsVars, dicom_filepath, source, pixel_array,
                   specific_output_folder_name, i, frame, msg, exc, dirs0, files0>>

\* pydicom.dcmread raises InvalidDicomError: except clause, the call ends
ReadInvalid ==
    /\ pc = "read"
    /\ source.kind = "invalid"
    /\ Raise("InvalidDicomError")
    /\ UNCHANGED <<batchVars, fsVars, callVars>>

\* pydicom.dcmread raises FileNotFoundError: except clause, the call ends
ReadMissing ==
    /\ pc = "read"
    /\ source.kind = "missing"
    /\ Raise("FileNotFoundError")
    /\ UNCHANGED <<batchVars, fsVars, callVars>>

\* pydicom.dcmread raises anything else (a directory, no permission)
ReadError ==
    /\ pc = "read"
    /\ source.kind = "unreadable"
    /\ Raise("OSError")
    /\ UNCHANGED <<batchVars, fsVars, callVars>>

\* (0x7fe0, 0x0010) not in ds: report (and the referenced-image note), return
NoPixelData ==
    /\ pc = "check"
    /\ ~ds.pixel
    /\ msg' = IF ds.refseq THEN "info_refseq" ELSE "info_nopixel"
    /\ pc' = "ret"
    /\ UNCHANGED <<batchVars, fsVars, callVars, exc>>

\* pixel_array = ds.pixel_array, and the folder name is derived
PixelArray ==
    /\ pc = "check"
    /\ ds.pixel
    /\ \E shape \in Shapes, dtype \in Dtypes :
           pixel_array' = [shape |-> shape, dtype |-> dtype]
    /\ specific_output_folder_name' = FolderName(dicom_filepath)
    /\ pc' = "mkdir"
    /\ UNCHANGED <<batchVars, fsVars, dicom_filepath, source, ds, i, frame, msg, exc,
                   dirs0, files0>>

\* ds.pixel_array raises (no decoder for the transfer syntax, truncated data)
PixelArrayFails ==
    /\ pc = "check"
    /\ ds.pixel
    /\ Raise("NotImplementedError")
    /\ UNCHANGED <<batchVars, fsVars, callVars>>

ndim == Len(pixel_array.shape)

\* the dispatch on pixel_array.ndim: the branch taken
DispatchMutant(nd) ==
    IF nd = 3 THEN "loop3" ELSE IF nd = 4 THEN "loop4" ELSE IF nd <= 2 THEN "rank2" ELSE "ret"
Dispatch(nd) ==
    IF nd = 3 THEN "loop3" ELSE IF nd = 4 THEN "loop4" ELSE IF nd = 2 THEN "rank2" ELSE "ret"

\* os.makedirs unless the folder exists, then the dispatch on pixel_array.ndim;
\* any rank but 2, 3, 4 is reported and the call ends
MakeDirs ==
    /\ pc = "mkdir"
    /\ dirs' = dirs \cup {specific_output_folder_name}
    /\ i' = 0
    /\ pc' = Dispatch(ndim)
    /\ msg' = IF Dispatch(ndim) = "ret" THEN "warn_rank" ELSE msg
    /\ UNCHANGED <<batchVars, files, writes, wrote, dicom_filepath, source, ds,
                   pixel_array, specific_output_folder_name, frame, exc, dirs0, files0>>

\* os.makedirs raises
MakeDirsFails ==
    /\ pc = "mkdir"
    /\ specific_output_folder_name \notin dirs
    /\ \E e \in FsErrors : Raise(e)
    /\ UNCHANGED <<batchVars, fsVars, callVars>>

num_frames == pixel_array.shape[1]

\* one pass of the rank-3 loop: slice, rescale, shape test, encode, save
\* (`err`: what image.save raises, None if it succeeds)
Frame3 ==
    /\ pc = "loop3"
    /\ i < num_frames
    /\ LET fshape == FrameShape(pixel_array.shape)
           kind == FrameKind(fshape)
           mode == IF kind = "L" THEN FromArrayL(fshape) ELSE FromArray(fshape)
       IN  \E err \in {None} \cup FsErrors :
             IF kind = "skip"
             THEN /\ i' = i + 1
                  /\ msg' = "warn_frame"
                  /\ UNCHANGED <<pc, exc, files, writes, wrote, frame>>
             ELSE IF mode \in EncodeErrors \/ err # None
             THEN /\ Raise(IF mode \in EncodeErrors THEN mode ELSE err)
                  /\ UNCHANGED <<i, files, writes, wrote, frame>>
             ELSE \E data \in FrameData(pixel_array.dtype, Product(fshape)) :
                  /\ Saved(FrameName(i),
                           [index |-> i, name |-> FrameName(i), rank |-> 3,
                            dtype |-> pixel_array.dtype, in |-> data,
                            out |-> Normalize(pixel_array.dtype, data),
                            mode |-> mode, shape |-> fshape])
                  /\ i' = i + 1
                  /\ UNCHANGED <<pc, msg, exc>>
    /\ UNCHANGED <<batchVars, dirs, dicom_filepath, source, ds, pixel_array,
                   specific_output_folder_name, dirs0, files0>>

\* the rank-3 loop is exhausted: "Extraction complete"
Done3 ==
    /\ pc = "loop3"
    /\ i >= num_frames
    /\ msg' = "complete"
    /\ pc' = "ret"
    /\ UNCHANGED <<batchVars, fsVars, callVars, exc>>

\* one pass of the rank-4 loop: slice, rescale, encode, save
Frame4 ==
    /\ pc = "loop4"
    /\ i < num_frames
    /\ LET fshape == FrameShape(pixel_array.shape)
           mode == FromArray(fshape)
       IN  \E err \in {None} \cup FsErrors :
             IF mode \in EncodeErrors \/ err # None
             THEN /\ Raise(IF mode \in EncodeErrors THEN mode ELSE err)
                  /\ UNCHANGED <<i, files, writes, wrote, frame>>
             ELSE \E data \in FrameData(pixel_array.dtype, Product(fshape)) :
                  /\ Saved(FrameName(i),
                           [index |-> i, name |-> FrameName(i), rank |-> 4,
                            dtype |-> pixel_array.dtype, in |-> data,
                            out |-> Normalize(pixel_array.dtype, data),
                            mode |-> mode, shape |-> fshape])
                  /\ i' = i + 1
                  /\ UNCHANGED <<pc, msg, exc>>
    /\ UNCHANGED <<batchVars, dirs, dicom_filepath, source, ds, pixel_array,
                   specific_output_folder_name, dirs0, files0>>

\* the rank-4 loop is exhausted: "Extraction complete"
Done4 ==
    /\ pc = "loop4"
    /\ i >= num_frames
    /\ msg' = "complete"
    /\ pc' = "ret"
    /\ UNCHANGED <<batchVars, fsVars, callVars, exc>>

\* the rank-2 branch: rescale, encode as 'L', save single_frame.png
Single ==
    /\ pc = "rank2"
    /\ LET fshape == pixel_array.shape
           mode == FromArrayL(fshape)
       IN  \E err \in {None} \cup FsErrors :
             IF err # None
             THEN /\ Raise(err)
                  /\ UNCHANGED <<files, writes, wrote, frame>>
             ELSE \E data \in FrameData(pixel_array.dtype, Product(fshape)) :
                  /\ Saved(SingleName,
                           [index |-> 0, name |-> SingleName, rank |-> 2,
                            dtype |-> pixel_array.dtype, in |-> data,
                            out |-> Normalize(pixel_array.dtype, data),
                            mode |-> mode, shape |-> fshape])
                  /\ msg' = "saved"
                  /\ pc' = "ret"
                  /\ exc' = exc
    /\ UNCHANGED <<batchVars, dirs, dicom_filepath, source, ds, pixel_array,
                   specific_output_folder_name, i, dirs0, files0>>

Next ==
    \/ MainNoFolder \/ MainList \/ MainListFails
    \/ ForDcm \/ ForDcmRaises \/ ForSkip \/ ForEnd \/ Return
    \/ ReadOk \/ ReadInvalid \/ ReadMissing \/ ReadError
    \/ NoPixelData \/ PixelArray \/ PixelArrayFails
    \/ MakeDirs \/ MakeDirsFails
    \/ Frame3 \/ Done3 \/ Frame4 \/ Done4 \/ Single

Spec == Init /\ [][Next]_vars

\* ================================================================== claims
\* Names and values the claims use, written out independently of the model.

\* "frame_" then four decimal digits then ".png" (indices below 10000)
PaddedName(k) ==
    <<102, 114, 97, 109, 101, 95,
      48 + ((k \div 1000) % 10), 48 + ((k \div 100) % 10),
      48 + ((k \div 10) % 10), 48 + (k % 10),
      46, 112, 110, 103>>

AllFrames(n) == {PaddedName(k) : k \in 0..(n - 1)}

\* the name ends in ".dcm" in any mix of upper and lower case
HasDcmExt(name) ==
    /\ Len(name) >= 4
    /\ name[Len(name) - 3] = 46
    /\ name[Len(name) - 2] \in {100, 68}
    /\ name[Len(name) - 1] \in {99, 67}
    /\ name[Len(name)] \in {109, 77}

\* "<name without its 4-character extension>_extracted"
ExpectedFolder(name) ==
    SubSeq(name, 1, Len(name) - 4) \o <<95, 101, 120, 116, 114, 97, 99, 116, 101, 100>>

\* the file name the running call was started with
Current == invoked[Len(invoked)]

\* a call has been made and has not returned to the loop
InCall == pc \in {"read", "check", "mkdir", "loop3", "loop4", "rank2", "ret", "crashed"}

Handlers == {"err_invalid", "err_notfound", "err_unexpected"}

\* ---------------------------------------------------------------------- C1
\* C1: a call on a source file that does not exist, is no valid DICOM
\* container, or decodes without the pixel-data tag returns normally (no
\* exception reaches the caller) and has written no output image file.
C1_NoOutputNoException ==
    (/\ pc \in {"ret", "crashed"}
     /\ \/ source.kind \in {"missing", "invalid"}
        \/ source.kind = "dicom" /\ ~source.pixel) =>
        /\ pc = "ret"
        /\ exc \in {None, "FileNotFoundError", "InvalidDicomError"}
        /\ wrote = {}
        /\ files = files0

\* ---------------------------------------------------------------------- C2
\* C2: over an existing folder, extraction is invoked once for each listed name
\* ending in ".dcm" (any case) and for no other, in ascending name order, one
\* call after the other; whatever failure a call meets, the batch does not stop
\* before its "Finished" step, and by then every such name has been processed.
C2_Batch ==
    /\ \A a, b \in 1..Len(invoked) : a < b => StrLess(invoked[a], invoked[b])
    /\ \A a \in 1..Len(invoked) : invoked[a] \in listing /\ HasDcmExt(invoked[a])
    /\ Len(invoked) = Len(log) + (IF InCall THEN 1 ELSE 0)
    /\ (isdir /\ pc # "finished") => ENABLED Next
    /\ (pc = "finished" /\ Len(filenames) = Cardinality(listing)) =>
           \A n \in listing :
               HasDcmExt(n) => \E a \in 1..Len(invoked) : invoked[a] = n

\* ---------------------------------------------------------------------- C3
\* the reference normalization, stated by its result
RefNormalized(dtype, in, out) ==
    LET mn == SeqMin(in)
        mx == SeqMax(in)
    IN  /\ Len(out) = Len(in)
        /\ dtype = "uint8" => out = in
        /\ (dtype # "uint8" /\ mx = mn) => \A k \in 1..Len(out) : out[k] = 0
        /\ (dtype # "uint8" /\ mx # mn) =>
               \A k \in 1..Len(out) :
                   /\ out[k] \in 0..255
                   /\ out[k] * (mx - mn) <= 255 * (in[k] - mn)
                   /\ 255 * (in[k] - mn) < (out[k] + 1) * (mx - mn)
                   /\ in[k] = mn => out[k] = 0
                   /\ in[k] = mx => out[k] = 255

\* C3: the samples of every frame written equal the reference normalization of
\* the input frame: unchanged for uint8; all zero for a flat frame; otherwise
\* 255 * (x - min) / (max - min) with the fraction dropped, min going to 0 and
\* max to 255, min and max being those of the one frame.
C3_Normalization ==
    frame # <<>> => RefNormalized(frame[1].dtype, frame[1].in, frame[1].out)

\* a written frame with a minimum, a maximum and a value in between
C3_Witness ==
    /\ frame # <<>>
    /\ frame[1].dtype = "int16"
    /\ \E a, b, c \in 1..Len(frame[1].in) :
           /\ frame[1].in[a] < frame[1].in[b]
           /\ frame[1].in[b] < frame[1].in[c]
           /\ frame[1].out[a] = 0
           /\ frame[1].out[b] = 72
           /\ frame[1].out[c] = 255

\* ---------------------------------------------------------------------- C4
\* C4 as claimed: a rank-4 buffer of N frames yields the N artifacts
\* frame_0000.png .. frame_{N-1}.png whatever its trailing axis (here even
\* granting that no save fails).
C4_Original ==
    (pc = "ret" /\ ndim = 4 /\ exc \notin FsErrors) => wrote = AllFrames(num_frames)

\* C4 as amended: the artifacts of a rank-4 call are always those of a prefix of
\* the frame indices (no frame is skipped); all N are written when the trailing
\* axis is 2, 3 or 4 and neither the folder creation nor a save fails; for any
\* other trailing axis the encoder rejects the first frame, the catch-all
\* handler ends the call and nothing is written.
C4_Rank4 ==
    (pc = "ret" /\ ndim = 4) =>
        LET chan == pixel_array.shape[4]
        IN  /\ wrote = AllFrames(i)
            /\ Cardinality(wrote) = i
            /\ i <= num_frames
            /\ (chan \in {2, 3, 4} /\ exc \notin FsErrors) =>
                   i = num_frames /\ msg = "complete" /\ exc = None
            /\ chan \notin {2, 3, 4} =>
                   /\ wrote = {}
                   /\ msg \in Handlers
                   /\ IF ExpectedFolder(Current) \in dirs
                      THEN exc = "TypeError" /\ msg = "err_unexpected"
                      ELSE exc \in FsErrors

C4_Witness ==
    /\ pc = "ret"
    /\ ndim = 4
    /\ num_frames = 2
    /\ pixel_array.shape[4] = 3
    /\ wrote = {PaddedName(0), PaddedName(1)}
    /\ msg = "complete"

\* ---------------------------------------------------------------------- C5
\* a frame that is neither 2-D nor 3-D with a trailing axis of 3 or 4
Anomalous(fshape) ==
    ~(\/ Len(fshape) = 2
      \/ Len(fshape) = 3 /\ fshape[3] \in {3, 4})

\* C5 as claimed: after a rank-3 call on N frames the artifact of index i is
\* absent exactly when frame i is shape-anomalous, so the artifacts of all other
\* indices are present (looked at here for the calls that saved a frame).
C5_Original ==
    (pc = "ret" /\ ndim = 3 /\ wrote # {}) =>
        \A k \in 0..(num_frames - 1) :
            (PaddedName(k) \notin wrote) <=> Anomalous(SubSeq(pixel_array.shape, 2, 3))

\* C5 as amended: a rank-3 buffer of N frames yields at most N artifacts, each
\* named frame_<i:04d>.png for a frame index i; among the frames the loop has
\* passed, the artifact of index i is absent exactly when frame i is
\* shape-anomalous; a call that raises no exception passes all N frames, and an
\* exception raised at frame k (a save that fails) ends the call in an except
\* clause with the artifacts of the indices below k only.
C5_Rank3 ==
    (pc \in {"loop3", "ret"} /\ ndim = 3) =>
        LET fshape == SubSeq(pixel_array.shape, 2, 3)
        IN  /\ wrote \subseteq AllFrames(num_frames)
            /\ Cardinality(wrote) <= num_frames
            /\ \A k \in 0..(i - 1) : (PaddedName(k) \notin wrote) <=> Anomalous(fshape)
            /\ \A k \in i..(num_frames - 1) : PaddedName(k) \notin wrote
            /\ (pc = "ret" /\ exc = None) => i = num_frames
            /\ (pc = "ret" /\ exc # None) =>
                   i < num_frames /\ exc \in FsErrors /\ msg \in Handlers

C5_Witness ==
    /\ pc = "ret"
    /\ ndim = 3
    /\ exc = None
    /\ num_frames = 2
    /\ wrote = {PaddedName(0), PaddedName(1)}

\* ---------------------------------------------------------------------- C6
\* C6 as claimed: a rank-2 buffer always yields exactly one artifact,
\* single_frame.png, in the folder <source-basename>_extracted (looked at here
\* for the calls whose folder exists).
C6_Original ==
    (pc = "ret" /\ ndim = 2 /\ ExpectedFolder(Current) \in dirs) =>
        /\ wrote = {SingleName}
        /\ <<ExpectedFolder(Current), SingleName, Current>> \in files

\* C6 as amended: a rank-2 call that raises no exception yields exactly one
\* artifact, single_frame.png, in the folder <source-basename>_extracted; one
\* that raises (the folder creation or the save fails) ends in an except clause
\* and yields none; in neither case is a frame_<index>.png written.
C6_Rank2 ==
    (pc = "ret" /\ ndim = 2) =>
        /\ \A k \in 0..MaxFrames : PaddedName(k) \notin wrote
        /\ exc # None => wrote = {} /\ exc \in FsErrors /\ msg \in Handlers
        /\ exc = None =>
               /\ wrote = {SingleName}
               /\ msg = "saved"
               /\ specific_output_folder_name = ExpectedFolder(Current)
               /\ ExpectedFolder(Current) \in dirs
               /\ <<ExpectedFolder(Current), SingleName, Current>> \in files
               /\ <<Current, ExpectedFolder(Current), SingleName>> \in writes

C6_Witness ==
    /\ pc = "ret"
    /\ ndim = 2
    /\ wrote = {SingleName}
    /\ <<ExpectedFolder(Current), SingleName, Current>> \in files

\* ---------------------------------------------------------------------- C7
\* C7 as claimed: a call that ends through one of the three exception handlers
\* has written no output image file.
C7_Original ==
    (pc = "ret" /\ msg \in Handlers) => (wrote = {} /\ files = files0)

\* C7 as amended: a call that ends through an exception handler (chosen by the
\* type of the exception, wherever it was raised) has written exactly the images
\* of the frames before the one at which the exception was raised,
\* frame_0000.png .. frame_{k-1}.png, and they stay on disk; that is none when
\* the exception was raised by the decode, by the folder creation, at frame 0 or
\* in the rank-2 branch.
C7_Handlers ==
    (pc = "ret" /\ msg \in Handlers) =>
        /\ exc # None
        /\ msg = "err_invalid" <=> exc = "InvalidDicomError"
        /\ msg = "err_notfound" <=> exc = "FileNotFoundError"
        /\ wrote = (IF ndim \in {3, 4} THEN AllFrames(i) ELSE {})
        /\ Cardinality(wrote) = (IF ndim \in {3, 4} THEN i ELSE 0)
        /\ \A n \in wrote : <<ExpectedFolder(Current), n, Current>> \in files
        /\ \A f \in files \ files0 : f[1] = ExpectedFolder(Current) /\ f[2] \in wrote
        /\ ndim \in {3, 4} => i < num_frames

\* the save of frame 1 raised FileNotFoundError: the missing-file handler ended
\* the call, frame 0 is on disk
C7_Witness ==
    /\ pc = "ret"
    /\ msg = "err_notfound"
    /\ i = 1
    /\ wrote = {PaddedName(0)}
    /\ <<ExpectedFolder(Current), PaddedName(0), Current>> \in files

\* ---------------------------------------------------------------------- C8
\* C8: two distinct source files never write the same output path, also when
\* their names differ only in the case of the extension.
C8_DisjointOutputs ==
    \A w1, w2 \in writes :
        w1[1] # w2[1] => <<w1[2], w1[3]>> # <<w2[2], w2[3]>>

\* ---------------------------------------------------------------------- C9
\* C9 as claimed: after a call on a buffer of rank other than 2, 3, 4 the output
\* root is as before the call: no image file and no new folder.
C9_Original ==
    (pc = "ret" /\ pixel_array # NoArray /\ ndim \notin {2, 3, 4} /\ exc = None) =>
        (files = files0 /\ dirs = dirs0)

\* C9 as amended: such a call reports the rank and writes no image file; the
\* one change it leaves is that the folder <source-basename>_extracted exists
\* (it is created before the rank is looked at, unless it existed).
C9_BadRank ==
    (pc = "ret" /\ pixel_array # NoArray /\ ndim \notin {2, 3, 4}) =>
        /\ wrote = {}
        /\ files = files0
        /\ exc = None =>
               /\ msg = "warn_rank"
               /\ dirs = dirs0 \cup {ExpectedFolder(Current)}
        /\ exc # None => dirs = dirs0 /\ exc \in FsErrors /\ msg \in Handlers

C9_Witness ==
    /\ pc = "ret"
    /\ msg = "warn_rank"
    /\ ndim = 5
    /\ ExpectedFolder(Current) \notin dirs0
    /\ ExpectedFolder(Current) \in dirs
    /\ files = files0

\* --------------------------------------------------------------------- C10
\* C10: in the rank-3 branch every frame is 2-D and is encoded as grayscale;
\* neither the colour case nor the skip case is taken; a rank-3 buffer of N
\* frames whose saves all succeed yields exactly frame_0000.png ..
\* frame_{N-1}.png, so a buffer of shape (H, W, 3) is written as H grayscale
\* frames of W x 3 samples.
C10_Rank3Grayscale ==
    /\ msg # "warn_frame"
    /\ (frame # <<>> /\ frame[1].rank = 3) =>
           /\ frame[1].mode = "L"
           /\ frame[1].shape = <<pixel_array.shape[2], pixel_array.shape[3]>>
           /\ Len(frame[1].in) = pixel_array.shape[2] * pixel_array.shape[3]
    /\ (pc = "ret" /\ ndim = 3 /\ exc \notin FsErrors) =>
           /\ wrote = AllFrames(num_frames)
           /\ Cardinality(wrote) = num_frames
           /\ msg = "complete"
           /\ exc = None

\* a buffer of shape (2, 1, 3) came out as two grayscale frames
C10_Witness ==
    /\ pc = "ret"
    /\ pixel_array.shape = <<2, 1, 3>>
    /\ msg = "complete"
    /\ wrote = {PaddedName(0), PaddedName(1)}
    /\ frame[1].mode = "L"
    /\ frame[1].shape = <<1, 3>>

====
